---- MODULE Spec2Model ----
\* Model of the goflash/otel request-tracing middleware (otel.go).
\*
\* One middleware value is built by OTelWithConfig from an OTelConfig; every
\* inbound request then runs the returned handler: optional filter, span name,
\* Extract, Start, SetRequest, next(c), attribute/status assembly, deferred End.
\* The tracer, the propagator, the span and the flash.Ctx are external; they
\* are modelled as recorders of the calls the middleware makes on them.
EXTENDS Integers, Sequences, FiniteSets, TLC

\* ------------------------------------------------------------------ bounds
NumReqs == 2            \* request slots (concurrent requests at most)
MaxHelperCalls == 2     \* AddAttributes/AddEvent calls a handler makes
MaxDt == 1              \* clock ticks a handler may take (one tick = 1/TicksPerMs ms)

\* --------------------------------------------------------------- constants
StatusOK == 200         \* net/http StatusOK, used at otel.go:106
ServerErrorFloor == 500 \* threshold of defaultStatus, otel.go:68
TicksPerMs == 2         \* float64(time.Millisecond) in clock ticks, otel.go:129

Reqs == 1..NumReqs

\* ------------------------------------------------------- attribute values
\* attribute.KeyValue: a key and a typed scalar. All three constructors build
\* the same record shape so that lists of mixed types stay comparable.
AttrString(k, s) == [key |-> k, type |-> "STRING", str |-> s, num |-> 0, den |-> 1]
AttrInt(k, n) == [key |-> k, type |-> "INT64", str |-> "", num |-> n, den |-> 1]
AttrFloat64(k, n, d) == [key |-> k, type |-> "FLOAT64", str |-> "", num |-> n, den |-> d]

\* net/http StatusText for the codes the model uses ("" for unknown codes).
StatusText(code) ==
  CASE code = 200 -> "OK"
    [] code = 404 -> "Not Found"
    [] code = 500 -> "Internal Server Error"
    [] OTHER -> ""

\* ------------------------------------------------------------ the config
\* Function-valued fields are named by the behaviour of the function
\* supplied; "nil" is the absent function.
FilterFuncs == {"nil", "healthz"}            \* healthz: c.Path() == "/healthz"
SpanNameFuncs == {"nil", "empty", "custom"}  \* empty: returns ""; custom: "CUSTOM NAME"
AttributesFuncs == {"nil", "custom"}
StatusFuncs == {"nil", "custom"}
ExtraAttributesChoices ==
  { <<>>,
    << AttrString("extra.attr", "x"), AttrString("service.name", "other"),
       AttrInt("http.status_code", 777) >> }

OTelConfig ==
  [ Tracer : {"nil", "customTracer"},
    Propagator : {"nil", "customPropagator"},
    FilterFunc : FilterFuncs,
    SpanNameFunc : SpanNameFuncs,
    AttributesFunc : AttributesFuncs,
    StatusFunc : StatusFuncs,
    RecordDuration : BOOLEAN,
    ServiceName : {"", "svc"},
    ExtraAttributes : ExtraAttributesChoices ]

\* The configurations a middleware is built from here: every combination of
\* the behavioural fields on the default capabilities, and every choice of
\* capabilities on the zero-value configuration.
ZeroConfig ==
  [ Tracer |-> "nil", Propagator |-> "nil", FilterFunc |-> "nil",
    SpanNameFunc |-> "nil", AttributesFunc |-> "nil", StatusFunc |-> "nil",
    RecordDuration |-> FALSE, ServiceName |-> "", ExtraAttributes |-> <<>> ]

Configs ==
  { c \in OTelConfig :
      \/ c.Tracer = "nil" /\ c.Propagator = "nil"
      \/ [c EXCEPT !.Tracer = "nil", !.Propagator = "nil"] = ZeroConfig }

\* ---------------------------------------------------------------- state
VARIABLES
  cfg,          \* the OTelConfig captured by the middleware closure
  tracer,       \* tracer resolved at construction
  prop,         \* propagator resolved at construction
  pc,           \* per request: position of the middleware invocation
  req,          \* per request: the flash.Ctx view (method, path, route, ctx ...)
  resp,         \* per request: status code written to the response (0 = none)
  spans,        \* per request: the span started for it, as a call recorder
  handlerCalls, \* per request: number of times next(c) was invoked
  handlerCtx,   \* per request: request context the inner handler was given
  herr,         \* per request: error value the inner handler returned
  ret,          \* per request: value the middleware returned to its caller
  start,        \* per request: time.Now() taken before next(c)
  now,          \* the clock
  log,          \* per request: calls made, in order
  helperCalls,  \* per request: AddAttributes/AddEvent calls made so far
  inbound,      \* per request: the request as it reached the middleware
  elapsed,      \* per request: time.Since(start) taken after next(c) returned
  wrote,        \* per request: status code the inner handler wrote (0 = none)
  helperLog,    \* per request: AddAttributes/AddEvent calls with their arguments
  outerCalls    \* per request: helper calls made after the middleware returned,
                \* each with the span Span(c) gave it

vars == << cfg, tracer, prop, pc, req, resp, spans, handlerCalls, handlerCtx,
           herr, ret, start, now, log, helperCalls, inbound, elapsed,
           wrote, helperLog, outerCalls >>

\* ------------------------------------------------------------- contexts
\* A context.Context carries the active span (0 = none: SpanFromContext then
\* yields the no-op span) and the remote parent a propagator extracted.
Background == [span |-> 0, remote |-> "none"]

\* propagation.TextMapPropagator.Extract over a HeaderCarrier.
Extract(ctx, header) ==
  IF header = "none" THEN ctx ELSE [ctx EXCEPT !.remote = header]

\* ---------------------------------------------------------------- spans
NoSpan ==
  [ started |-> 0, tracer |-> [provider |-> "", name |-> ""], name |-> "",
    kind |-> "", parent |-> Background,
    attrs |-> <<>>, setAttributesCalls |-> <<>>,
    status |-> <<>>, events |-> <<>>, endCalls |-> 0 ]

\* Index of key k in attribute list s, 0 when absent.
RECURSIVE IndexOfKey(_, _, _)
IndexOfKey(s, k, i) ==
  IF i > Len(s) THEN 0
  ELSE IF s[i].key = k THEN i ELSE IndexOfKey(s, k, i + 1)

\* A write that leaves a key alone once it has a value.
SetAttribute_firstWins(s, kv) ==
  LET i == IndexOfKey(s, kv.key, 1)
  IN IF i = 0 THEN Append(s, kv) ELSE s

\* One attribute written to a span: last write wins per key.
SetAttribute(s, kv) ==
  LET i == IndexOfKey(s, kv.key, 1)
  IN IF i = 0 THEN Append(s, kv) ELSE [s EXCEPT ![i] = kv]

RECURSIVE SetAll(_, _)
SetAll(s, kvs) ==
  IF kvs = <<>> THEN s ELSE SetAll(SetAttribute(s, Head(kvs)), Tail(kvs))

\* trace.Span.SetAttributes; a span that has ended ignores the call.
SpanSetAttributes(sp, kvs) ==
  IF sp.endCalls > 0 THEN sp
  ELSE [sp EXCEPT !.attrs = SetAll(@, kvs),
                  !.setAttributesCalls = Append(@, kvs)]

\* AddEvent that drops the attributes passed with the event.
SpanAddEvent_noAttributes(sp, name, kvs) ==
  IF sp.endCalls > 0 THEN sp
  ELSE [sp EXCEPT !.events = Append(@, [name |-> name, attrs |-> <<>>])]

\* trace.Span.AddEvent
SpanAddEvent(sp, name, kvs) ==
  IF sp.endCalls > 0 THEN sp
  ELSE [sp EXCEPT !.events = Append(@, [name |-> name, attrs |-> kvs])]

\* trace.Span.SetStatus, recorded with the arguments of the call.
SpanSetStatus(sp, st) == [sp EXCEPT !.status = Append(@, st)]

\* trace.Span.RecordError: an "exception" event carrying the error.
SpanRecordError(sp, e) ==
  SpanAddEvent(sp, "exception", << AttrString("exception.message", e) >>)

\* trace.Span.End
SpanEnd(sp) == [sp EXCEPT !.endCalls = @ + 1]


\* ------------------------------------------------------------- requests
\* The flash.Ctx of an inbound request: method, raw path, matched route
\* template ("" while unmatched), peer address, the trace header it carries
\* and its context.
Request(m, p, rt, h) ==
  [ method |-> m, path |-> p, route |-> rt, remoteAddr |-> "10.0.0.1:4242",
    header |-> h, ctx |-> Background ]

Requests ==
  { Request("GET", "/healthz", "/healthz", "none"),
    Request("GET", "/u/1", "", "traceparent-A"),
    Request("GET", "/u/1", "/u/:id", "none"),
    Request("POST", "/u/1", "/u/:id", "traceparent-A") }

NoRequest == Request("", "", "", "none")

\* The route template the router matches a path to.
RouteOf(p) == IF p = "/u/1" THEN "/u/:id" ELSE p

\* Time a handler takes, in clock ticks: none that the clock resolves, or the
\* longest considered.
Durations == {0, MaxDt}

StatusCodes == {0, 200, 404, 500}   \* c.StatusCode(): 0 = nothing written
Errors == {"nil", "boom"}           \* error values a handler returns

\* ------------------------------------------------- the supplied functions
\* cfg.FilterFunc(c)
FilterFunc(kind, c) == kind = "healthz" /\ c.path = "/healthz"

\* cfg.SpanNameFunc(c)
SpanNameFunc(kind, c) == IF kind = "custom" THEN "CUSTOM NAME" ELSE ""

\* cfg.AttributesFunc(c): reads the status code the handler left behind and
\* also returns keys the middleware writes itself.
AttributesFunc(kind, c, written) ==
  << AttrString("custom.attr", "v"), AttrInt("resp.status", written),
     AttrString("http.method", "OVERRIDDEN"), AttrInt("http.status_code", 999) >>

\* cfg.StatusFunc(status, err): an unwritten status (0) is left Unset, 4xx
\* is an error; everything else is Ok, a handler error only being quoted in
\* the description.
StatusFunc(kind, status, err) ==
  IF status = 0 THEN <<"Unset", "">>
  ELSE IF status >= 400 /\ status < 500 THEN <<"Error", "client error">>
  ELSE IF err # "nil" THEN <<"Ok", "ignored: " \o err>>
  ELSE <<"Ok", "">>

\* --------------------------------------------------- OTelWithConfig: setup
GlobalTracer(name) == [provider |-> "global", name |-> name]
CustomTracer == [provider |-> "custom", name |-> "test"]
GlobalPropagator == "otel.GetTextMapPropagator()"

ResolveTracer(c) ==
  IF c.Tracer = "nil" THEN GlobalTracer("GoFlash") ELSE CustomTracer

ResolvePropagator(c) ==
  IF c.Propagator = "nil" THEN GlobalPropagator ELSE c.Propagator

\* defaultSpanName
defaultSpanName(c) ==
  IF c.route # "" THEN c.method \o " " \o c.route
  ELSE c.method \o " " \o c.path

\* defaultStatus with 4xx treated as an error as well.
defaultStatus_4xx(status, err) ==
  IF err # "nil" \/ status >= 400
  THEN <<"Error", StatusText(status)>>
  ELSE <<"Ok", "">>

\* defaultStatus
defaultStatus(status, err) ==
  IF err # "nil" \/ status >= ServerErrorFloor
  THEN <<"Error", StatusText(status)>>
  ELSE <<"Ok", "">>

\* Span naming that takes whatever SpanNameFunc returns, "" included.
SpanName_noFallback(k, c) ==
  IF k.SpanNameFunc # "nil" THEN SpanNameFunc(k.SpanNameFunc, c)
  ELSE defaultSpanName(c)

\* "Build span name": the default, replaced by a non-empty SpanNameFunc result.
SpanName(k, c) ==
  IF k.SpanNameFunc # "nil" /\ SpanNameFunc(k.SpanNameFunc, c) # ""
  THEN SpanNameFunc(k.SpanNameFunc, c)
  ELSE defaultSpanName(c)

\* The status code used as read, without the 0 -> 200 substitution.
EffectiveStatus_raw(written) == written

\* status := c.StatusCode(); if status == 0 { status = http.StatusOK }
EffectiveStatus(written) == IF written = 0 THEN StatusOK ELSE written

\* Assembly with http.status_code among the base attributes, ahead of the
\* configured ones.
FinalAttributes_statusFirst(k, c, written, el) ==
  << AttrString("http.method", c.method),
     AttrString("http.target", c.path),
     AttrString("net.peer.addr", c.remoteAddr),
     AttrInt("http.status_code", EffectiveStatus(written)) >>
  \o (IF c.route # "" THEN << AttrString("http.route", c.route) >> ELSE <<>>)
  \o (IF k.ServiceName # "" THEN << AttrString("service.name", k.ServiceName) >> ELSE <<>>)
  \o (IF k.AttributesFunc # "nil" THEN AttributesFunc(k.AttributesFunc, c, written) ELSE <<>>)
  \o (IF Len(k.ExtraAttributes) > 0 THEN k.ExtraAttributes ELSE <<>>)
  \o (IF k.RecordDuration
      THEN << AttrFloat64("http.server.duration_ms", el, TicksPerMs) >>
      ELSE <<>>)

\* Assembly that records the duration whatever RecordDuration says.
FinalAttributes_durationAlways(k, c, written, el) ==
  << AttrString("http.method", c.method),
     AttrString("http.target", c.path),
     AttrString("net.peer.addr", c.remoteAddr) >>
  \o (IF c.route # "" THEN << AttrString("http.route", c.route) >> ELSE <<>>)
  \o (IF k.ServiceName # "" THEN << AttrString("service.name", k.ServiceName) >> ELSE <<>>)
  \o (IF k.AttributesFunc # "nil" THEN AttributesFunc(k.AttributesFunc, c, written) ELSE <<>>)
  \o (IF Len(k.ExtraAttributes) > 0 THEN k.ExtraAttributes ELSE <<>>)
  \o << AttrInt("http.status_code", EffectiveStatus(written)) >>
  \o << AttrFloat64("http.server.duration_ms", el, TicksPerMs) >>

\* Assembly with AttributesFunc evaluated before next(c) ran, when no status
\* had been written yet.
FinalAttributes_earlyAttributesFunc(k, c, written, el) ==
  << AttrString("http.method", c.method),
     AttrString("http.target", c.path),
     AttrString("net.peer.addr", c.remoteAddr) >>
  \o (IF c.route # "" THEN << AttrString("http.route", c.route) >> ELSE <<>>)
  \o (IF k.ServiceName # "" THEN << AttrString("service.name", k.ServiceName) >> ELSE <<>>)
  \o (IF k.AttributesFunc # "nil" THEN AttributesFunc(k.AttributesFunc, c, 0) ELSE <<>>)
  \o (IF Len(k.ExtraAttributes) > 0 THEN k.ExtraAttributes ELSE <<>>)
  \o << AttrInt("http.status_code", EffectiveStatus(written)) >>
  \o (IF k.RecordDuration
      THEN << AttrFloat64("http.server.duration_ms", el, TicksPerMs) >>
      ELSE <<>>)

\* The attribute list assembled after next(c) returned.
FinalAttributes(k, c, written, el) ==
  << AttrString("http.method", c.method),
     AttrString("http.target", c.path),
     AttrString("net.peer.addr", c.remoteAddr) >>
  \o (IF c.route # "" THEN << AttrString("http.route", c.route) >> ELSE <<>>)
  \o (IF k.ServiceName # "" THEN << AttrString("service.name", k.ServiceName) >> ELSE <<>>)
  \o (IF k.AttributesFunc # "nil" THEN AttributesFunc(k.AttributesFunc, c, written) ELSE <<>>)
  \o (IF Len(k.ExtraAttributes) > 0 THEN k.ExtraAttributes ELSE <<>>)
  \o << AttrInt("http.status_code", EffectiveStatus(written)) >>
  \o (IF k.RecordDuration
      THEN << AttrFloat64("http.server.duration_ms", el, TicksPerMs) >>
      ELSE <<>>)

\* Status mapping in which an Error of the default mapping survives a
\* configured StatusFunc.
SpanStatus_merged(k, status, err) ==
  IF k.StatusFunc # "nil" /\ defaultStatus(status, err)[1] # "Error"
  THEN StatusFunc(k.StatusFunc, status, err)
  ELSE defaultStatus(status, err)

\* code, desc := defaultStatus(...); replaced by StatusFunc when configured.
SpanStatus(k, status, err) ==
  IF k.StatusFunc # "nil" THEN StatusFunc(k.StatusFunc, status, err)
  ELSE defaultStatus(status, err)

\* A middleware that reports success whatever the handler returned.
ReturnValue_swallowed(err) == "nil"

\* The value the middleware hands back: return err.
ReturnValue(err) == err

\* A middleware that writes the defaulted status to the response.
ResponseAfter_defaulted(written) == EffectiveStatus(written)

\* The response status once the middleware returned: it writes nothing to
\* the response, so it is the status the handler left (0 when none).
ResponseAfter(written) == written

\* No deferred End at all.
DeferredEnd_missing(sp) == sp

\* End called explicitly and deferred as well.
DeferredEnd_twice(sp) == SpanEnd(SpanEnd(sp))

\* defer span.End()
DeferredEnd(sp) == SpanEnd(sp)

\* One span kept by the package and handed to every caller.
Span_shared(c) == 1

\* A request without a span in its context is given the package's span.
Span_sticky(c) == IF c.ctx.span = 0 THEN 1 ELSE c.ctx.span

\* Span(c): trace.SpanFromContext(c.Request().Context()); 0 is the no-op span.
Span(c) == c.ctx.span

\* ----------------------------------------------------------------- Init
InitConfig ==
  /\ cfg \in Configs
  /\ tracer = ResolveTracer(cfg)
  /\ prop = ResolvePropagator(cfg)

InitRequests(live) ==
  /\ pc = [r \in Reqs |-> IF r \in live THEN "start" ELSE "absent"]
  /\ req = [r \in Reqs |-> NoRequest]
  /\ resp = [r \in Reqs |-> 0]
  /\ spans = [r \in Reqs |-> NoSpan]
  /\ handlerCalls = [r \in Reqs |-> 0]
  /\ handlerCtx = [r \in Reqs |-> Background]
  /\ herr = [r \in Reqs |-> "nil"]
  /\ ret = [r \in Reqs |-> "none"]
  /\ start = [r \in Reqs |-> 0]
  /\ now = 0
  /\ log = [r \in Reqs |-> <<>>]
  /\ helperCalls = [r \in Reqs |-> 0]
  /\ inbound = [r \in Reqs |-> NoRequest]
  /\ elapsed = [r \in Reqs |-> 0]
  /\ wrote = [r \in Reqs |-> 0]
  /\ helperLog = [r \in Reqs |-> <<>>]
  /\ outerCalls = [r \in Reqs |-> <<>>]

\* One request arrives at a freshly built middleware.
Init == InitConfig /\ InitRequests({1})


\* -------------------------------------------------------------- actions
\* A middleware that never consults the filter.
Filtered_ignored(k, c) == FALSE

\* if cfg.FilterFunc != nil && cfg.FilterFunc(c)
Filtered(k, c) == k.FilterFunc # "nil" /\ FilterFunc(k.FilterFunc, c)

\* Calls made from entry up to (not including) prop.Extract.
EntryCalls(k) ==
  (IF k.FilterFunc # "nil" THEN <<"FilterFunc">> ELSE <<>>)
  \o <<"defaultSpanName">>
  \o (IF k.SpanNameFunc # "nil" THEN <<"SpanNameFunc">> ELSE <<>>)

\* The calls up to Start with the context extracted before the name is built.
TracingCalls_extractFirst(k) ==
  (IF k.FilterFunc # "nil" THEN <<"FilterFunc">> ELSE <<>>)
  \o <<"Extract", "defaultSpanName">>
  \o (IF k.SpanNameFunc # "nil" THEN <<"SpanNameFunc">> ELSE <<>>)
  \o <<"Start">>

\* The calls of a traced request up to tracer.Start, in the order of the
\* code: the name is built, then prop.Extract, then tracer.Start.
TracingCalls(k) == EntryCalls(k) \o <<"Extract", "Start">>

\* tracer.Start(reqCtx, name, trace.WithSpanKind(trace.SpanKindServer))
TracerStart(t, parent, name) ==
  [NoSpan EXCEPT !.started = 1, !.tracer = t, !.name = name,
                 !.kind = "Server", !.parent = parent]

\* A request arrives and the filter skips it: return next(c).
EnterFiltered(r, q) ==
  /\ pc[r] = "start"
  /\ inbound' = [inbound EXCEPT ![r] = q]
  /\ Filtered(cfg, q)
  /\ pc' = [pc EXCEPT ![r] = "fhandler"]
  /\ req' = [req EXCEPT ![r] = q]
  /\ handlerCalls' = [handlerCalls EXCEPT ![r] = @ + 1]
  /\ handlerCtx' = [handlerCtx EXCEPT ![r] = q.ctx]
  /\ log' = [log EXCEPT ![r] = <<"FilterFunc", "next">>]
  /\ UNCHANGED << outerCalls, cfg, tracer, prop, resp, spans, herr, ret, start, now, helperCalls, elapsed, wrote, helperLog >>

\* A parent taken from the request context as it is, without Extract.
StartParent_unextracted(q) == q.ctx

\* reqCtx := prop.Extract(r.Context(), propagation.HeaderCarrier(r.Header))
StartParent(q) == Extract(q.ctx, q.header)

\* The merely extracted context put back on the request.
InstalledContext_extractedOnly(parent, id) == parent

\* reqCtx, span := tracer.Start(reqCtx, ...); c.SetRequest(r.WithContext(reqCtx)):
\* the context Start returned, which carries the new span.
InstalledContext(parent, id) == [parent EXCEPT !.span = id]

\* A request arrives and is traced: name, Extract, Start, SetRequest, next(c).
EnterTraced(r, q) ==
  /\ pc[r] = "start"
  /\ inbound' = [inbound EXCEPT ![r] = q]
  /\ ~Filtered(cfg, q)
  /\ LET parent == StartParent(q)
         derived == InstalledContext(parent, r)
     IN /\ spans' = [spans EXCEPT ![r] = TracerStart(tracer, parent, SpanName(cfg, q))]
        /\ req' = [req EXCEPT ![r] = [q EXCEPT !.ctx = derived]]
        /\ handlerCtx' = [handlerCtx EXCEPT ![r] = derived]
  /\ start' = [start EXCEPT ![r] = now]
  /\ handlerCalls' = [handlerCalls EXCEPT ![r] = @ + 1]
  /\ pc' = [pc EXCEPT ![r] = "handler"]
  /\ log' = [log EXCEPT ![r] =
               TracingCalls(cfg) \o <<"SetRequest", "next">>]
  /\ UNCHANGED << outerCalls, cfg, tracer, prop, resp, herr, ret, now, helperCalls, elapsed, wrote, helperLog >>

\* prop.Extract panics: nothing in the middleware recovers it.
EnterExtractPanic(r, q) ==
  /\ pc[r] = "start"
  /\ inbound' = [inbound EXCEPT ![r] = q]
  /\ ~Filtered(cfg, q)
  /\ req' = [req EXCEPT ![r] = q]
  /\ pc' = [pc EXCEPT ![r] = "panicked"]
  /\ log' = [log EXCEPT ![r] = EntryCalls(cfg) \o <<"Extract", "Extract.panic">>]
  /\ UNCHANGED << outerCalls, cfg, tracer, prop, resp, spans, handlerCalls, handlerCtx,
                  herr, ret, start, now, helperCalls, elapsed, wrote, helperLog >>

\* tracer.Start panics: no span exists, so no End is deferred yet.
EnterStartPanic(r, q) ==
  /\ pc[r] = "start"
  /\ inbound' = [inbound EXCEPT ![r] = q]
  /\ ~Filtered(cfg, q)
  /\ req' = [req EXCEPT ![r] = q]
  /\ pc' = [pc EXCEPT ![r] = "panicked"]
  /\ log' = [log EXCEPT ![r] = TracingCalls(cfg) \o <<"Start.panic">>]
  /\ UNCHANGED << outerCalls, cfg, tracer, prop, resp, spans, handlerCalls, handlerCtx,
                  herr, ret, start, now, helperCalls, elapsed, wrote, helperLog >>

\* A request reaches its handler on an app that has no tracing middleware
\* installed (flash.New() without Use). No configuration takes part; the
\* case is taken with the zero-value one.
ServeDirect(r, q) ==
  /\ pc[r] = "start"
  /\ cfg = ZeroConfig
  /\ inbound' = [inbound EXCEPT ![r] = q]
  /\ pc' = [pc EXCEPT ![r] = "fhandler"]
  /\ req' = [req EXCEPT ![r] = q]
  /\ handlerCalls' = [handlerCalls EXCEPT ![r] = @ + 1]
  /\ handlerCtx' = [handlerCtx EXCEPT ![r] = q.ctx]
  /\ log' = [log EXCEPT ![r] = <<"direct", "next">>]
  /\ UNCHANGED << outerCalls, cfg, tracer, prop, resp, spans, herr, ret, start, now,
                  helperCalls, elapsed, wrote, helperLog >>

InHandler(r) == pc[r] \in {"handler", "fhandler"}

\* The attributes the handler passes in its n-th helper call: a fixed one,
\* one whose value changes from call to call, and one under a key the
\* middleware writes as well.
HelperAttributes(n) ==
  << AttrString("dyn.k", "v"), AttrInt("dyn.n", n),
     AttrString("http.method", "HANDLER") >>

\* AddAttributes(c, attrs...) called by the inner handler.
AddAttributes(r, kvs) ==
  /\ InHandler(r)
  /\ helperCalls[r] < MaxHelperCalls
  /\ helperCalls' = [helperCalls EXCEPT ![r] = @ + 1]
  /\ spans' = IF Span(req[r]) = 0 THEN spans
              ELSE [spans EXCEPT ![Span(req[r])] = SpanSetAttributes(@, kvs)]
  /\ log' = [log EXCEPT ![r] = Append(@, "AddAttributes")]
  /\ helperLog' = [helperLog EXCEPT ![r] =
        Append(@, [op |-> "AddAttributes", name |-> "", attrs |-> kvs])]
  /\ UNCHANGED << outerCalls, cfg, tracer, prop, pc, req, resp, handlerCalls, handlerCtx,
                  herr, ret, start, now, inbound, elapsed, wrote >>

\* AddEvent(c, name, attrs...) called by the inner handler.
AddEvent(r, name, kvs) ==
  /\ InHandler(r)
  /\ helperCalls[r] < MaxHelperCalls
  /\ helperCalls' = [helperCalls EXCEPT ![r] = @ + 1]
  /\ spans' = IF Span(req[r]) = 0 THEN spans
              ELSE [spans EXCEPT ![Span(req[r])] = SpanAddEvent(@, name, kvs)]
  /\ log' = [log EXCEPT ![r] = Append(@, "AddEvent")]
  /\ helperLog' = [helperLog EXCEPT ![r] =
        Append(@, [op |-> "AddEvent", name |-> name, attrs |-> kvs])]
  /\ UNCHANGED << outerCalls, cfg, tracer, prop, pc, req, resp, handlerCalls, handlerCtx,
                  herr, ret, start, now, inbound, elapsed, wrote >>

\* The router matches the request to its route template while it is handled.
RouteMatched(r) ==
  /\ InHandler(r)
  /\ req[r].route = ""
  /\ req' = [req EXCEPT ![r].route = RouteOf(req[r].path)]
  /\ UNCHANGED << outerCalls, cfg, tracer, prop, pc, resp, spans, handlerCalls, handlerCtx,
                  herr, ret, start, now, log, helperCalls, inbound, elapsed, wrote, helperLog >>

\* The inner handler of an untraced request (filtered, or served without the
\* middleware) returns e after writing status s (0: nothing written); that
\* value goes back to the caller as it is.
FilteredReturn(r, s, e, dt) ==
  /\ pc[r] = "fhandler"
  /\ resp' = [resp EXCEPT ![r] = s]
  /\ herr' = [herr EXCEPT ![r] = e]
  /\ now' = now + dt
  /\ ret' = [ret EXCEPT ![r] = e]
  /\ pc' = [pc EXCEPT ![r] = "done"]
  /\ log' = [log EXCEPT ![r] = @ \o <<"next.return", "return">>]
  /\ wrote' = [wrote EXCEPT ![r] = s]
  /\ UNCHANGED << outerCalls, cfg, tracer, prop, req, spans, handlerCalls, handlerCtx,
                  start, helperCalls, inbound, elapsed, helperLog >>

\* A return that puts the context of the request back as it arrived.
RequestAfter_restored(c, arrived) == [c EXCEPT !.ctx = arrived.ctx]

\* The request when the middleware returns: nothing after c.SetRequest
\* touches it, the derived context stays installed.
RequestAfter(c, arrived) == c

\* Calls of the finalizing step, in order, for a handler result e.
FinalizeCalls(k, e) ==
  (IF k.AttributesFunc # "nil" THEN <<"AttributesFunc">> ELSE <<>>)
  \o <<"SetAttributes">>
  \o (IF k.StatusFunc # "nil" THEN <<"StatusFunc">> ELSE <<>>)
  \o <<"SetStatus">>
  \o (IF e # "nil" THEN <<"RecordError">> ELSE <<>>)

\* Finalization that also renames the span from the request as it is then.
Finalized_renamed(sp, k, c, written, e, el) ==
  LET a == SpanSetAttributes([sp EXCEPT !.name = SpanName(k, c)],
                             FinalAttributes(k, c, written, el))
      b == SpanSetStatus(a, SpanStatus(k, EffectiveStatus(written), e))
  IN IF e # "nil" THEN SpanRecordError(b, e) ELSE b

\* Finalization that records the error only under an Error status.
Finalized_errorOnlyOnErrorStatus(sp, k, c, written, e, el) ==
  LET st == SpanStatus(k, EffectiveStatus(written), e)
      a == SpanSetAttributes(sp, FinalAttributes(k, c, written, el))
      b == SpanSetStatus(a, st)
  IN IF e # "nil" /\ st[1] = "Error" THEN SpanRecordError(b, e) ELSE b

\* span.SetAttributes(attrs...); span.SetStatus(code, desc);
\* if err != nil { span.RecordError(err) }
Finalized(sp, k, c, written, e, el) ==
  LET a == SpanSetAttributes(sp, FinalAttributes(k, c, written, el))
      b == SpanSetStatus(a, SpanStatus(k, EffectiveStatus(written), e))
  IN IF e # "nil" THEN SpanRecordError(b, e) ELSE b

\* The inner handler of a traced request returns e after writing status s,
\* dt ticks after it was invoked; the middleware finalizes the span, the
\* deferred End runs and the middleware returns.
TracedReturn(r, s, e, dt) ==
  /\ pc[r] = "handler"
  /\ resp' = [resp EXCEPT ![r] = ResponseAfter(s)]
  /\ herr' = [herr EXCEPT ![r] = e]
  /\ now' = now + dt
  /\ elapsed' = [elapsed EXCEPT ![r] = now' - start[r]]
  /\ spans' = [spans EXCEPT ![r] =
                 DeferredEnd(Finalized(@, cfg, req[r], s, e, elapsed'[r]))]
  /\ ret' = [ret EXCEPT ![r] = ReturnValue(e)]
  /\ pc' = [pc EXCEPT ![r] = "done"]
  /\ log' = [log EXCEPT ![r] =
               @ \o <<"next.return">> \o FinalizeCalls(cfg, e) \o <<"return", "End">>]
  /\ wrote' = [wrote EXCEPT ![r] = s]
  /\ req' = [req EXCEPT ![r] = RequestAfter(@, inbound[r])]
  /\ UNCHANGED << outerCalls, cfg, tracer, prop, handlerCalls, handlerCtx, start, helperCalls, inbound, helperLog >>

\* A middleware wrapped around this one goes on after it returned and calls
\* AddAttributes and then AddEvent on the request it passed down; the
\* handler of the request made no helper call itself.
OuterHelpers(r) ==
  /\ pc[r] = "done"
  /\ helperCalls[r] = 0 /\ outerCalls[r] = <<>>
  /\ LET target == Span(req[r])
     IN /\ outerCalls' = [outerCalls EXCEPT ![r] =
              << [op |-> "AddAttributes", target |-> target],
                 [op |-> "AddEvent", target |-> target] >>]
        /\ spans' = IF target = 0 THEN spans
                    ELSE [spans EXCEPT ![target] =
                            SpanAddEvent(SpanSetAttributes(@, HelperAttributes(1)),
                                         "custom.event", << AttrString("ev.k", "evv") >>)]
  /\ UNCHANGED << cfg, tracer, prop, pc, req, resp, handlerCalls, handlerCtx, herr, ret,
                  start, now, log, helperCalls, inbound, elapsed, wrote, helperLog >>

\* A handler panic on which the span is given an Error status before End.
HandlerPanic_finalized(r) ==
  /\ InHandler(r)
  /\ spans' = IF pc[r] = "handler"
              THEN [spans EXCEPT ![r] = DeferredEnd(SpanSetStatus(@, <<"Error", "panic">>))]
              ELSE spans
  /\ pc' = [pc EXCEPT ![r] = "panicked"]
  /\ log' = [log EXCEPT ![r] =
               @ \o <<"next.panic">> \o (IF pc[r] = "handler" THEN <<"End">> ELSE <<>>)]
  /\ UNCHANGED << outerCalls, cfg, tracer, prop, req, resp, handlerCalls, handlerCtx,
                  herr, ret, start, now, helperCalls, inbound, elapsed, wrote, helperLog >>

\* The inner handler panics: traced, the deferred End runs while the panic
\* unwinds; the panic leaves the middleware either way.
HandlerPanic(r) ==
  /\ InHandler(r)
  /\ spans' = IF pc[r] = "handler"
              THEN [spans EXCEPT ![r] = DeferredEnd(@)] ELSE spans
  /\ pc' = [pc EXCEPT ![r] = "panicked"]
  /\ log' = [log EXCEPT ![r] =
               @ \o <<"next.panic">> \o (IF pc[r] = "handler" THEN <<"End">> ELSE <<>>)]
  /\ UNCHANGED << outerCalls, cfg, tracer, prop, req, resp, handlerCalls, handlerCtx,
                  herr, ret, start, now, helperCalls, inbound, elapsed, wrote, helperLog >>

\* The handler returns and cfg.AttributesFunc panics: nothing was set yet.
AttributesFuncPanic(r, s, e, dt) ==
  /\ pc[r] = "handler"
  /\ cfg.AttributesFunc # "nil"
  /\ resp' = [resp EXCEPT ![r] = s]
  /\ herr' = [herr EXCEPT ![r] = e]
  /\ now' = now + dt
  /\ elapsed' = [elapsed EXCEPT ![r] = now' - start[r]]
  /\ spans' = [spans EXCEPT ![r] = DeferredEnd(@)]
  /\ pc' = [pc EXCEPT ![r] = "panicked"]
  /\ log' = [log EXCEPT ![r] = @ \o <<"next.return", "AttributesFunc", "AttributesFunc.panic", "End">>]
  /\ wrote' = [wrote EXCEPT ![r] = s]
  /\ UNCHANGED << outerCalls, cfg, tracer, prop, req, handlerCalls, handlerCtx, ret, start, helperCalls, inbound, helperLog >>

\* The handler returns and cfg.StatusFunc panics: attributes are set, the
\* status is not.
StatusFuncPanic(r, s, e, dt) ==
  /\ pc[r] = "handler"
  /\ cfg.StatusFunc # "nil"
  /\ resp' = [resp EXCEPT ![r] = s]
  /\ herr' = [herr EXCEPT ![r] = e]
  /\ now' = now + dt
  /\ elapsed' = [elapsed EXCEPT ![r] = now' - start[r]]
  /\ spans' = [spans EXCEPT ![r] =
       DeferredEnd(SpanSetAttributes(@, FinalAttributes(cfg, req[r], s, elapsed'[r])))]
  /\ pc' = [pc EXCEPT ![r] = "panicked"]
  /\ log' = [log EXCEPT ![r] =
               @ \o <<"next.return">>
                 \o (IF cfg.AttributesFunc # "nil" THEN <<"AttributesFunc">> ELSE <<>>)
                 \o <<"SetAttributes", "StatusFunc", "StatusFunc.panic", "End">>]
  /\ wrote' = [wrote EXCEPT ![r] = s]
  /\ UNCHANGED << outerCalls, cfg, tracer, prop, req, handlerCalls, handlerCtx, ret, start, helperCalls, inbound, helperLog >>

\* The handler returns and span.SetAttributes panics: the handler's result
\* is lost to the panic, the deferred End still runs.
SetAttributesPanic(r, s, e, dt) ==
  /\ pc[r] = "handler"
  /\ resp' = [resp EXCEPT ![r] = s]
  /\ herr' = [herr EXCEPT ![r] = e]
  /\ now' = now + dt
  /\ elapsed' = [elapsed EXCEPT ![r] = now' - start[r]]
  /\ spans' = [spans EXCEPT ![r] = DeferredEnd(@)]
  /\ pc' = [pc EXCEPT ![r] = "panicked"]
  /\ log' = [log EXCEPT ![r] =
               @ \o <<"next.return">>
                 \o (IF cfg.AttributesFunc # "nil" THEN <<"AttributesFunc">> ELSE <<>>)
                 \o <<"SetAttributes", "SetAttributes.panic", "End">>]
  /\ wrote' = [wrote EXCEPT ![r] = s]
  /\ UNCHANGED << outerCalls, cfg, tracer, prop, req, handlerCalls, handlerCtx, ret, start, helperCalls, inbound, helperLog >>

Next ==
  \E r \in Reqs :
    \/ \E q \in Requests : EnterFiltered(r, q)
    \/ \E q \in Requests : EnterTraced(r, q)
    \/ \E q \in Requests : EnterExtractPanic(r, q)
    \/ \E q \in Requests : EnterStartPanic(r, q)
    \/ \E q \in Requests : ServeDirect(r, q)
    \/ AddAttributes(r, HelperAttributes(helperCalls[r] + 1))
    \/ AddEvent(r, "custom.event", << AttrString("ev.k", "evv") >>)
    \/ RouteMatched(r)
    \/ \E s \in StatusCodes, e \in Errors, dt \in Durations : FilteredReturn(r, s, e, dt)
    \/ \E s \in StatusCodes, e \in Errors, dt \in Durations : TracedReturn(r, s, e, dt)
    \/ HandlerPanic(r)
    \/ OuterHelpers(r)
    \/ \E s \in StatusCodes, e \in Errors, dt \in Durations : AttributesFuncPanic(r, s, e, dt)
    \/ \E s \in StatusCodes, e \in Errors, dt \in Durations : StatusFuncPanic(r, s, e, dt)
    \/ \E s \in StatusCodes, e \in Errors, dt \in Durations : SetAttributesPanic(r, s, e, dt)

Spec == Init /\ [][Next]_vars

\* ------------------------------------------- two requests, one middleware
\* A middleware that uses every option, and the zero-value one.
FullConfig ==
  [ Tracer |-> "nil", Propagator |-> "nil", FilterFunc |-> "healthz",
    SpanNameFunc |-> "custom", AttributesFunc |-> "custom", StatusFunc |-> "custom",
    RecordDuration |-> TRUE, ServiceName |-> "svc",
    ExtraAttributes |-> << AttrString("extra.attr", "x"), AttrString("service.name", "other"),
                           AttrInt("http.status_code", 777) >> ]

ConcConfigs == {ZeroConfig, FullConfig}

\* Requests served at the same time: one the filter skips, one that carries
\* a remote parent and has its route matched while it is handled.
ConcRequests ==
  { Request("GET", "/healthz", "/healthz", "none"),
    Request("GET", "/u/1", "", "traceparent-A") }

ConcStatusCodes == {0, 404}

\* The server runs each request in a goroutine of its own; both go through
\* the one closure OTelWithConfig returned.
InitConc ==
  /\ cfg \in ConcConfigs
  /\ tracer = ResolveTracer(cfg)
  /\ prop = ResolvePropagator(cfg)
  /\ InitRequests({1, 2})

\* The steps of the two goroutines interleave freely. Each handler makes at
\* most one helper call, with attributes that tell the requests apart.
NextConc ==
  \E r \in Reqs :
    \/ \E q \in ConcRequests : EnterFiltered(r, q)
    \/ \E q \in ConcRequests : EnterTraced(r, q)
    \/ \E q \in ConcRequests : ServeDirect(r, q)
    \/ helperCalls[r] = 0 /\ AddAttributes(r, HelperAttributes(r))
    \/ helperCalls[r] = 0 /\ AddEvent(r, "custom.event", << AttrInt("ev.req", r) >>)
    \/ RouteMatched(r)
    \/ \E s \in ConcStatusCodes, e \in Errors, dt \in Durations : FilteredReturn(r, s, e, dt)
    \/ \E s \in ConcStatusCodes, e \in Errors, dt \in Durations : TracedReturn(r, s, e, dt)
    \/ HandlerPanic(r)

SpecConc == InitConc /\ [][NextConc]_vars


\* ------------------------------------------------------ stating the claims
\* Number of entries of sq equal to x.
Count(sq, x) == Cardinality({ i \in 1..Len(sq) : sq[i] = x })

Has(sq, x) == \E i \in 1..Len(sq) : sq[i] = x

\* Position of the first x in sq (0 when absent).
Pos(sq, x) == IF Has(sq, x) THEN CHOOSE i \in 1..Len(sq) : sq[i] = x /\ \A j \in 1..(i-1) : sq[j] # x ELSE 0

\* The entries of attribute list a that carry key k.
WithKey(a, k) == { a[i] : i \in { j \in 1..Len(a) : a[j].key = k } }

Arrived(r) == pc[r] \notin {"absent", "start"}

\* The request was served without passing the middleware.
Direct(r) == Arrived(r) /\ log[r][1] = "direct"

\* The filter was configured and said true for the request as it arrived.
WasFiltered(r) ==
  /\ Arrived(r) /\ ~Direct(r)
  /\ cfg.FilterFunc = "healthz" /\ inbound[r].path = "/healthz"

WasTraced(r) == Arrived(r) /\ ~Direct(r) /\ ~WasFiltered(r)

\* The request went through finalization and the middleware returned.
TracedDone(r) == WasTraced(r) /\ pc[r] = "done"

\* The status code the middleware is to work with: 200 when none was written.
Effective(r) == IF resp[r] = 0 THEN 200 ELSE resp[r]

\* C1: for a request the filter does not skip and whose inner handler
\* returns, exactly one span is started and exactly one (the same) is ended,
\* and End comes strictly after the handler's return.
C1_OneSpanEndedAfterHandler ==
  \A r \in Reqs :
    (WasTraced(r) /\ Has(log[r], "next.return")) =>
      /\ Count(log[r], "Start") = 1
      /\ spans[r].started = 1
      /\ Count(log[r], "End") = 1
      /\ spans[r].endCalls = 1
      /\ Pos(log[r], "next.return") < Pos(log[r], "End")

C1_Witness ==
  /\ cfg.FilterFunc = "healthz" /\ inbound[1].path = "/u/1"
  /\ pc[1] = "done" /\ herr[1] = "boom"
  /\ spans[1].started = 1 /\ spans[1].endCalls = 1

\* C2: for a request the filter skips, no span is started, Extract is not
\* called, SpanNameFunc/AttributesFunc/StatusFunc are not evaluated, nothing
\* is recorded, the handler sees the original request context (SetRequest is
\* not called), the handler is invoked exactly once and its result is
\* returned unchanged.
C2_FilteredLeavesNoTrace ==
  \A r \in Reqs :
    WasFiltered(r) =>
      /\ spans[r] = NoSpan
      /\ \A op \in {"Extract", "Start", "SetRequest", "SpanNameFunc", "AttributesFunc",
                    "StatusFunc", "SetAttributes", "SetStatus", "RecordError", "End"} :
            ~Has(log[r], op)
      /\ handlerCtx[r] = inbound[r].ctx
      /\ req[r].ctx = inbound[r].ctx
      /\ handlerCalls[r] = 1
      /\ Count(log[r], "next") = 1
      /\ (pc[r] = "done" => ret[r] = herr[r])
      /\ (Has(log[r], "next.return") => pc[r] = "done")

C2_Witness ==
  /\ WasFiltered(1) /\ pc[1] = "done" /\ ret[1] = "boom"
  /\ helperCalls[1] = 1 /\ cfg.SpanNameFunc = "custom"
  /\ cfg.AttributesFunc = "custom" /\ cfg.StatusFunc = "custom"

\* C3: for a traced request, under every configuration, the middleware
\* returns exactly what the inner handler returned: nil stays nil, an error
\* is the same error.
C3_ReturnsHandlerResult ==
  \A r \in Reqs :
    /\ TracedDone(r) => ret[r] = herr[r]
    /\ (WasTraced(r) /\ pc[r] # "done") => ret[r] = "none"

C3_Witness ==
  /\ TracedDone(1) /\ herr[1] = "boom" /\ ret[1] = "boom"
  /\ cfg.StatusFunc = "custom" /\ cfg.AttributesFunc = "custom"
  /\ cfg.SpanNameFunc = "custom" /\ cfg.RecordDuration

\* C4: a started span is ended exactly once on every exit of the middleware
\* (handler returned nil or an error, handler panicked, AttributesFunc or
\* StatusFunc panicked); it is never ended twice and never left un-ended.
C4_EndedExactlyOnce ==
  \A r \in Reqs :
    /\ spans[r].endCalls <= 1
    /\ (spans[r].started = 1 /\ pc[r] \in {"done", "panicked"}) => spans[r].endCalls = 1
    /\ (spans[r].started = 1 /\ pc[r] = "handler") => spans[r].endCalls = 0

C4_Witness ==
  /\ pc[1] = "panicked" /\ Has(log[1], "StatusFunc.panic")
  /\ spans[1].started = 1 /\ spans[1].endCalls = 1

\* C5: a panic of prop.Extract, of tracer.Start or of a span operation never
\* keeps the inner handler from being invoked nor its result from being
\* returned to the caller.
C5_CapabilityFailureInvisible ==
  \A r \in Reqs :
    (\E op \in {"Extract.panic", "Start.panic", "SetAttributes.panic"} : Has(log[r], op)) =>
      /\ handlerCalls[r] = 1
      /\ (Has(log[r], "next.return") => pc[r] = "done" /\ ret[r] = herr[r])

\* C6: without a StatusFunc the span status is (Error, StatusText(s)) when
\* the handler returned an error or the effective status s is >= 500, and
\* (Ok, "") otherwise; 404 and 200 with a nil error both give (Ok, "").
C6_DefaultStatusMapping ==
  \A r \in Reqs :
    (TracedDone(r) /\ cfg.StatusFunc = "nil") =>
      /\ spans[r].status =
           << IF herr[r] # "nil" \/ Effective(r) >= 500
              THEN <<"Error", StatusText(Effective(r))>>
              ELSE <<"Ok", "">> >>
      /\ (herr[r] = "nil" /\ resp[r] \in {200, 404}) => spans[r].status = << <<"Ok", "">> >>

C6_Witness ==
  /\ TracedDone(1) /\ cfg.StatusFunc = "nil"
  /\ resp[1] = 404 /\ herr[1] = "nil" /\ spans[1].status = << <<"Ok", "">> >>

\* C7: with a StatusFunc the span status is exactly StatusFunc(effective
\* status, handler error), the default mapping never shows, and SetStatus is
\* called exactly once per request that reaches finalization.
C7_StatusFuncReplacesDefault ==
  \A r \in Reqs :
    /\ (TracedDone(r) /\ cfg.StatusFunc # "nil") =>
          spans[r].status = << StatusFunc(cfg.StatusFunc, Effective(r), herr[r]) >>
    /\ TracedDone(r) => (Len(spans[r].status) = 1 /\ Count(log[r], "SetStatus") = 1)

C7_Witness ==
  /\ TracedDone(1) /\ cfg.StatusFunc = "custom"
  /\ resp[1] = 500 /\ herr[1] = "boom"
  /\ spans[1].status = << <<"Ok", "ignored: boom">> >>

\* C8: when the handler wrote no status the effective status is 200:
\* http.status_code is 200 and the status mapping gets 200; with an error
\* the status is (Error, StatusText(200)), the error is recorded as an event
\* and still returned. A status the handler wrote is used as it is.
C8_UnwrittenStatusIs200 ==
  \A r \in Reqs :
    TracedDone(r) =>
      /\ WithKey(spans[r].attrs, "http.status_code") =
           { AttrInt("http.status_code", IF resp[r] = 0 THEN 200 ELSE resp[r]) }
      /\ (resp[r] = 0 /\ cfg.StatusFunc = "nil") =>
            spans[r].status =
              << IF herr[r] # "nil" THEN <<"Error", "OK">> ELSE <<"Ok", "">> >>
      /\ (resp[r] = 0 /\ cfg.StatusFunc # "nil") =>
            spans[r].status = << StatusFunc(cfg.StatusFunc, 200, herr[r]) >>
      /\ (resp[r] = 0 /\ herr[r] # "nil") =>
            /\ \E i \in 1..Len(spans[r].events) :
                  spans[r].events[i] =
                    [name |-> "exception",
                     attrs |-> << AttrString("exception.message", herr[r]) >>]
            /\ ret[r] = herr[r]

C8_Witness ==
  /\ TracedDone(1) /\ resp[1] = 0 /\ herr[1] = "boom" /\ cfg.StatusFunc = "nil"
  /\ spans[1].status = << <<"Error", "OK">> >> /\ ret[1] = "boom"

\* C9: the span is started under SpanNameFunc(c) when that is configured
\* and non-empty, otherwise under METHOD + " " + route template when the
\* request has a matched route and METHOD + " " + raw path when it has none;
\* the span name is never empty.
C9_SpanName ==
  \A r \in Reqs :
    spans[r].started = 1 =>
      /\ spans[r].name =
           IF cfg.SpanNameFunc = "custom" THEN "CUSTOM NAME"
           ELSE IF inbound[r].route # ""
                THEN inbound[r].method \o " " \o inbound[r].route
                ELSE inbound[r].method \o " " \o inbound[r].path
      /\ spans[r].name # ""

C9_Witness ==
  /\ cfg.SpanNameFunc = "empty" /\ spans[1].started = 1
  /\ inbound[1].route = "" /\ spans[1].name = "GET /u/1"

\* C10: finalization sets one attribute list, in the order http.method,
\* http.target, net.peer.addr, http.route (iff routed), service.name (iff
\* ServiceName), AttributesFunc's result (iff configured), ExtraAttributes,
\* http.status_code, http.server.duration_ms (iff RecordDuration); an equal
\* key from AttributesFunc or ExtraAttributes overrides the base attributes
\* and service.name, never http.status_code or the duration.
C10_AttributeOrder ==
  \A r \in Reqs :
    TracedDone(r) =>
      LET calls == spans[r].setAttributesCalls
          c == req[r]
      IN /\ Count(log[r], "SetAttributes") = 1
         /\ Len(calls) >= 1
         /\ calls[Len(calls)] =
              << AttrString("http.method", c.method), AttrString("http.target", c.path),
                 AttrString("net.peer.addr", c.remoteAddr) >>
              \o (IF c.route # "" THEN << AttrString("http.route", c.route) >> ELSE <<>>)
              \o (IF cfg.ServiceName # "" THEN << AttrString("service.name", cfg.ServiceName) >> ELSE <<>>)
              \o (IF cfg.AttributesFunc # "nil"
                  THEN AttributesFunc(cfg.AttributesFunc, c, resp[r]) ELSE <<>>)
              \o cfg.ExtraAttributes
              \o << AttrInt("http.status_code", Effective(r)) >>
              \o (IF cfg.RecordDuration
                  THEN << AttrFloat64("http.server.duration_ms", elapsed[r], TicksPerMs) >>
                  ELSE <<>>)
         /\ WithKey(spans[r].attrs, "http.status_code") = { AttrInt("http.status_code", Effective(r)) }
         /\ cfg.RecordDuration =>
              WithKey(spans[r].attrs, "http.server.duration_ms") =
                { AttrFloat64("http.server.duration_ms", elapsed[r], TicksPerMs) }
         /\ cfg.AttributesFunc # "nil" =>
              WithKey(spans[r].attrs, "http.method") = { AttrString("http.method", "OVERRIDDEN") }
         /\ cfg.ExtraAttributes # <<>> =>
              WithKey(spans[r].attrs, "service.name") = { AttrString("service.name", "other") }

C10_Witness ==
  /\ TracedDone(1) /\ cfg.AttributesFunc = "custom" /\ cfg.ExtraAttributes # <<>>
  /\ cfg.ServiceName = "svc" /\ cfg.RecordDuration /\ req[1].route # ""
  /\ resp[1] = 404 /\ Len(spans[1].setAttributesCalls) = 2 /\ elapsed[1] = 1
  /\ WithKey(spans[1].attrs, "http.status_code") = { AttrInt("http.status_code", 404) }

C12_TotalOrder ==
  \A r \in Reqs :
    LET l == log[r]
        Before(a, b) == Has(l, a) /\ Has(l, b) => Pos(l, a) < Pos(l, b)
    IN /\ TracedDone(r) =>
            /\ \A op \in {"Start", "SetRequest", "next", "next.return",
                          "SetAttributes", "SetStatus", "End"} : Count(l, op) = 1
            /\ Count(l, "AttributesFunc") = (IF cfg.AttributesFunc # "nil" THEN 1 ELSE 0)
            /\ Count(l, "RecordError") = (IF herr[r] # "nil" THEN 1 ELSE 0)
            /\ cfg.AttributesFunc # "nil" =>
                 WithKey(spans[r].attrs, "resp.status") = { AttrInt("resp.status", wrote[r]) }
       /\ WasTraced(r) =>
            /\ Before("Start", "SetRequest") /\ Before("SetRequest", "next")
            /\ Before("next", "next.return")
            /\ Before("next.return", "AttributesFunc")
            /\ Before("AttributesFunc", "SetAttributes")
            /\ Before("next.return", "SetAttributes")
            /\ Before("SetAttributes", "SetStatus")
            /\ Before("SetStatus", "RecordError")
            /\ Before("RecordError", "End")
            /\ Before("SetStatus", "End") /\ Before("SetAttributes", "End")
            /\ Before("next.return", "End")
            /\ ~Has(l, "next.return") =>
                 /\ ~Has(l, "AttributesFunc") /\ ~Has(l, "SetAttributes")
                 /\ ~Has(l, "SetStatus") /\ ~Has(l, "RecordError")
                 /\ spans[r].status = <<>>

C12_Witness ==
  /\ TracedDone(1) /\ cfg.AttributesFunc = "custom" /\ herr[1] = "boom"
  /\ wrote[1] = 404
  /\ WithKey(spans[1].attrs, "resp.status") = { AttrInt("resp.status", 404) }
  /\ Has(log[1], "RecordError")

\* C13: the context carrying the new span is installed on the request before
\* the inner handler is invoked, so that all through the handler Span(c) is
\* the span started for this very request: a started, un-ended span, not the
\* no-op span of an empty context and not the span of another request.
C13_HandlerSeesOwnSpan ==
  \A r \in Reqs :
    pc[r] = "handler" =>
      /\ req[r].ctx.span = r
      /\ handlerCtx[r] = req[r].ctx
      /\ handlerCtx[r].span # 0
      /\ \A o \in Reqs \ {r} : req[o].ctx.span # r
      /\ spans[r].started = 1 /\ spans[r].endCalls = 0
      /\ Pos(log[r], "Start") < Pos(log[r], "SetRequest")
      /\ Pos(log[r], "SetRequest") < Pos(log[r], "next")

C13_Witness ==
  /\ pc[1] = "handler" /\ req[1].ctx.span = 1 /\ helperCalls[1] = 2
  /\ spans[1].events # <<>> /\ WithKey(spans[1].attrs, "dyn.k") # {}

\* The events the AddEvent calls of a handler ask for, in call order.
RECURSIVE HelperEvents(_)
HelperEvents(hl) ==
  IF hl = <<>> THEN <<>>
  ELSE (IF Head(hl).op = "AddEvent"
        THEN << [name |-> Head(hl).name, attrs |-> Head(hl).attrs] >> ELSE <<>>)
       \o HelperEvents(Tail(hl))

\* The keys the AddAttributes calls of a handler wrote.
HelperKeys(hl) ==
  { hl[i].attrs[j].key : i \in { n \in 1..Len(hl) : hl[n].op = "AddAttributes" }, j \in 1..3 }

\* The last value the handler gave key k.
LastHelperWrite(hl, k) ==
  LET calls == { i \in 1..Len(hl) :
                   hl[i].op = "AddAttributes" /\ WithKey(hl[i].attrs, k) # {} }
      last == CHOOSE i \in calls : \A j \in calls : j <= i
  IN WithKey(hl[last].attrs, k)

\* The keys of the attribute list finalization set, none when it set none.
FinalKeys(r) ==
  LET calls == spans[r].setAttributesCalls
      mine == Count([i \in 1..Len(helperLog[r]) |-> helperLog[r][i].op], "AddAttributes")
  IN IF Len(calls) > mine
     THEN { calls[Len(calls)][i].key : i \in 1..Len(calls[Len(calls)]) }
     ELSE {}

Untraced(r) == WasFiltered(r) \/ Direct(r)

\* C15: when no tracing was established for a request (it was filtered, or
\* no interceptor is installed) Span(c) is the no-op span of a context that
\* carries none, and every AddAttributes / AddEvent call of its handler
\* completes, the handler going on, and changes no span at all.
C15_HelpersNoOpWhenUntraced ==
  /\ [](\A r \in Reqs :
          Untraced(r) =>
            /\ Span(req[r]) = 0
            /\ spans[r] = NoSpan)
  /\ [][\A r \in Reqs :
          (Untraced(r) /\ helperCalls'[r] # helperCalls[r]) =>
            /\ spans' = spans
            /\ pc'[r] = pc[r]
            /\ helperCalls'[r] = helperCalls[r] + 1]_vars

C15_Witness ==
  /\ Direct(1) /\ pc[1] = "done" /\ Len(helperLog[1]) = 2
  /\ helperLog[1][1].op = "AddAttributes" /\ helperLog[1][2].op = "AddEvent"
  /\ spans[1] = NoSpan

\* C16: the interceptor never writes the response: on every path (filtered,
\* traced with a nil result, traced with an error, handler wrote no status,
\* handler panicking) the response status is what the handler wrote, and a
\* status nobody wrote stays unwritten although the span is given 200.
C16_ResponseUntouched ==
  \A r \in Reqs :
    /\ resp[r] = wrote[r]
    /\ (pc[r] \notin {"done", "panicked"} /\ handlerCalls[r] = 0) => resp[r] = 0
    /\ (TracedDone(r) /\ wrote[r] = 0) =>
          /\ resp[r] = 0
          /\ AttrInt("http.status_code", StatusOK) \in WithKey(spans[r].attrs, "http.status_code")

C16_Witness ==
  /\ TracedDone(1) /\ wrote[1] = 0 /\ resp[1] = 0 /\ herr[1] = "boom"
  /\ WithKey(spans[1].attrs, "http.status_code") = { AttrInt("http.status_code", StatusOK) }

\* The span of request r after its handler made the helper calls hl on it.
RECURSIVE ApplyHelpers(_, _)
ApplyHelpers(sp, hl) ==
  IF hl = <<>> THEN sp
  ELSE ApplyHelpers(IF Head(hl).op = "AddAttributes"
                    THEN SpanSetAttributes(sp, Head(hl).attrs)
                    ELSE SpanAddEvent(sp, Head(hl).name, Head(hl).attrs),
                    Tail(hl))

\* The span request r leaves when it is the only request: started from its
\* own inbound request, given its own handler's calls, finalized with its own
\* status, result and duration.
AloneOutcome(r) ==
  LET q == inbound[r]
      started == [NoSpan EXCEPT !.started = 1, !.tracer = tracer,
                                !.name = SpanName(cfg, q), !.kind = "Server",
                                !.parent = Extract(q.ctx, q.header)]
      handled == ApplyHelpers(started, helperLog[r])
  IN IF pc[r] = "handler" THEN handled
     ELSE IF pc[r] = "done"
     THEN DeferredEnd(Finalized(handled, cfg, req[r], wrote[r], herr[r], elapsed[r]))
     ELSE DeferredEnd(handled)

\* C17: the configuration is shared and only read: no step of any request
\* changes a field of it (ExtraAttributes keeps its entries and their order)
\* nor the tracer and propagator resolved from it; and however the steps of two
\* concurrent requests interleave, the span of each is what the request
\* leaves when run alone: its own name, parent, attributes, events, status
\* and duration, and nothing of the other's. An untraced request has no span.
C17_RequestsDoNotInterfere ==
  /\ [][cfg' = cfg /\ tracer' = tracer /\ prop' = prop]_vars
  /\ [](\A r \in Reqs :
          /\ Untraced(r) => spans[r] = NoSpan
          /\ WasTraced(r) =>
                /\ spans[r] = AloneOutcome(r)
                /\ req[r].ctx.span = r
                /\ elapsed[r] >= 0 /\ elapsed[r] <= now - start[r])

C17_Witness ==
  /\ cfg = FullConfig
  /\ TracedDone(1) /\ TracedDone(2)
  /\ elapsed[1] = MaxDt /\ elapsed[2] = MaxDt /\ now = MaxDt
  /\ wrote[1] = 404 /\ wrote[2] = 0 /\ herr[1] = "boom" /\ herr[2] = "nil"
  /\ WithKey(spans[1].attrs, "dyn.n") = { AttrInt("dyn.n", 1) }
  /\ spans[2].events = << [name |-> "custom.event", attrs |-> << AttrInt("ev.req", 2) >>] >>
  /\ WithKey(spans[2].attrs, "dyn.n") = {}

\* C18: defaults are resolved once, at construction: with a nil cfg.Tracer
\* every span comes from the global tracer obtained under the library name
\* "github.com/goflash/flash/v2", with a nil cfg.Propagator the global
\* text-map propagator is used; a Tracer or Propagator given in the
\* configuration is used as it is, for every request.
C18_DefaultsResolvedAtConstruction ==
  /\ cfg.Tracer = "nil" => tracer = GlobalTracer("github.com/goflash/flash/v2")
  /\ cfg.Tracer # "nil" => tracer = CustomTracer
  /\ cfg.Propagator = "nil" => prop = GlobalPropagator
  /\ cfg.Propagator # "nil" => prop = cfg.Propagator
  /\ \A r \in Reqs : spans[r].started = 1 => spans[r].tracer = tracer

\* The exception events span sp carries.
Exceptions(sp) ==
  { i \in 1..Len(sp.events) : sp.events[i].name = "exception" }

\* C19: a traced request that reaches finalization has the handler's error
\* recorded on its span as an exception event exactly once when the handler
\* returned a non-nil error, and has no exception event when it returned nil,
\* whatever span status was chosen (a StatusFunc answering Ok for the error
\* included) and whatever the status code.
C19_ErrorRecordedOnce ==
  \A r \in Reqs :
    TracedDone(r) =>
      /\ Cardinality(Exceptions(spans[r])) = (IF herr[r] # "nil" THEN 1 ELSE 0)
      /\ Count(log[r], "RecordError") = (IF herr[r] # "nil" THEN 1 ELSE 0)
      /\ \A i \in Exceptions(spans[r]) :
            /\ spans[r].events[i].attrs = << AttrString("exception.message", herr[r]) >>
            /\ i = Len(spans[r].events)
      /\ Pos(log[r], "SetStatus") < Pos(log[r], "End")
      /\ herr[r] # "nil" => Pos(log[r], "SetStatus") < Pos(log[r], "RecordError")

C19_Witness ==
  /\ TracedDone(1) /\ cfg.StatusFunc = "custom" /\ herr[1] = "boom" /\ wrote[1] = 200
  /\ spans[1].status = << <<"Ok", "ignored: boom">> >>
  /\ Cardinality(Exceptions(spans[1])) = 1

\* C20: for every traced request the propagator's Extract is called exactly
\* once, on the context and the headers of the request as it arrived, before
\* the tracer's Start; the span is started once, with the context Extract
\* returned as its parent and with kind Server; and the context installed on
\* the request is the one Start returned, which carries the new span, not
\* the merely extracted one.
C20_ExtractThenStart ==
  \A r \in Reqs :
    (WasTraced(r) /\ spans[r].started = 1) =>
      LET extracted == Extract(inbound[r].ctx, inbound[r].header)
      IN /\ Count(log[r], "Extract") = 1 /\ Count(log[r], "Start") = 1
         /\ Count(log[r], "SetRequest") = 1
         /\ Pos(log[r], "Extract") < Pos(log[r], "Start")
         /\ Pos(log[r], "Start") < Pos(log[r], "SetRequest")
         /\ spans[r].parent = extracted
         /\ inbound[r].header # "none" => spans[r].parent.remote = inbound[r].header
         /\ spans[r].parent.span = inbound[r].ctx.span
         /\ spans[r].kind = "Server"
         /\ spans[r].tracer = tracer
         /\ req[r].ctx = [extracted EXCEPT !.span = r]
         /\ req[r].ctx # extracted
         /\ handlerCtx[r] = req[r].ctx

C20_Witness ==
  /\ WasTraced(1) /\ pc[1] = "handler" /\ inbound[1].header = "traceparent-A"
  /\ spans[1].parent = [span |-> 0, remote |-> "traceparent-A"]
  /\ req[1].ctx = [span |-> 1, remote |-> "traceparent-A"]
  /\ spans[1].kind = "Server"

\* C21: in the Tracing state the steps run in the order of the design: the
\* parent context is extracted from the inbound headers (step a) before the
\* span name is computed (step b), which happens before the span is started
\* (step c).
C21_ExtractBeforeName ==
  \A r \in Reqs :
    (WasTraced(r) /\ spans[r].started = 1) =>
      /\ Pos(log[r], "Extract") < Pos(log[r], "defaultSpanName")
      /\ cfg.SpanNameFunc # "nil" => Pos(log[r], "Extract") < Pos(log[r], "SpanNameFunc")
      /\ Pos(log[r], "defaultSpanName") < Pos(log[r], "Start")

\* C21, as the code has it: the span name is computed first, defaultSpanName
\* and then SpanNameFunc if one is configured, each once; the parent context
\* is extracted after that, and the span is started last, under the name
\* computed from the request as it arrived. When Extract panics the name has
\* been computed already and no span is started.
C21_NameBeforeExtract ==
  \A r \in Reqs :
    LET l == log[r]
    IN /\ (WasTraced(r) /\ spans[r].started = 1) =>
            /\ Count(l, "defaultSpanName") = 1
            /\ Count(l, "SpanNameFunc") = (IF cfg.SpanNameFunc # "nil" THEN 1 ELSE 0)
            /\ Pos(l, "defaultSpanName") < Pos(l, "Extract")
            /\ cfg.SpanNameFunc # "nil" =>
                 /\ Pos(l, "defaultSpanName") < Pos(l, "SpanNameFunc")
                 /\ Pos(l, "SpanNameFunc") < Pos(l, "Extract")
            /\ Pos(l, "Extract") < Pos(l, "Start")
            /\ spans[r].name = SpanName(cfg, inbound[r])
       /\ Has(l, "Extract.panic") =>
            /\ Has(l, "defaultSpanName")
            /\ cfg.SpanNameFunc # "nil" => Has(l, "SpanNameFunc")
            /\ spans[r] = NoSpan

C21_Witness ==
  /\ WasTraced(1) /\ pc[1] = "handler" /\ cfg.SpanNameFunc = "custom"
  /\ spans[1].name = "CUSTOM NAME" /\ inbound[1].header = "traceparent-A"
  /\ Pos(log[1], "SpanNameFunc") + 1 = Pos(log[1], "Extract")
  /\ Pos(log[1], "Extract") + 1 = Pos(log[1], "Start")

\* The attribute list finalization handed to SetAttributes for request r.
FinalCall(r) == spans[r].setAttributesCalls[Len(spans[r].setAttributesCalls)]

\* C22: the span name is computed once, from the request as it is before the
\* inner handler runs, and is never updated; http.method, http.target and
\* http.route are read from the request after the handler returned. So when
\* the route template becomes known during handling the ended span is named
\* METHOD + " " + path while http.route carries the template; the default
\* name and http.route agree only when the route was set at entry.
C22_NameFromEntryState ==
  \A r \in Reqs :
    /\ (WasTraced(r) /\ spans[r].started = 1) =>
          spans[r].name = SpanName(cfg, inbound[r])
    /\ TracedDone(r) =>
          /\ FinalCall(r)[1] = AttrString("http.method", req[r].method)
          /\ FinalCall(r)[2] = AttrString("http.target", req[r].path)
          /\ WithKey(spans[r].attrs, "http.route") =
               (IF req[r].route # "" THEN { AttrString("http.route", req[r].route) } ELSE {})
          /\ (cfg.SpanNameFunc \in {"nil", "empty"} /\ req[r].route # "") =>
               /\ (spans[r].name = req[r].method \o " " \o req[r].route)
                    <=> inbound[r].route # ""
               /\ inbound[r].route = "" =>
                    spans[r].name = inbound[r].method \o " " \o inbound[r].path

C22_Witness ==
  /\ TracedDone(1) /\ cfg.SpanNameFunc = "nil"
  /\ inbound[1].route = "" /\ req[1].route = "/u/:id"
  /\ spans[1].name = "GET /u/1"
  /\ WithKey(spans[1].attrs, "http.route") = { AttrString("http.route", "/u/:id") }

\* The last entry of attribute list a under key k.
LastOfKey(a, k) ==
  LET at == { i \in 1..Len(a) : a[i].key = k }
  IN a[CHOOSE i \in at : \A j \in at : j <= i]

\* C23: finalization's SetAttributes runs after the inner handler returned,
\* so on the ended span an attribute the handler set through AddAttributes
\* under a key finalization writes as well carries the interceptor's value,
\* and the handler's attributes under every other key are as the handler
\* left them.
C23_FinalizationOverwrites ==
  \A r \in Reqs :
    TracedDone(r) =>
      LET hl == helperLog[r]
          fin == FinalCall(r)
          finKeys == { fin[i].key : i \in 1..Len(fin) }
      IN /\ {"http.method", "http.target", "net.peer.addr", "http.status_code"} \subseteq finKeys
         /\ \A k \in HelperKeys(hl) :
               WithKey(spans[r].attrs, k) =
                 (IF k \in finKeys THEN { LastOfKey(fin, k) } ELSE LastHelperWrite(hl, k))
         /\ HelperKeys(hl) # {} =>
               /\ AttrString("http.method", "HANDLER") \notin WithKey(spans[r].attrs, "http.method")
               /\ AttrString("dyn.k", "v") \in WithKey(spans[r].attrs, "dyn.k")

C23_Witness ==
  /\ TracedDone(1) /\ cfg.AttributesFunc = "nil"
  /\ Len(helperLog[1]) = 2 /\ helperLog[1][2].op = "AddAttributes"
  /\ helperLog[1][1].op = "AddAttributes"
  /\ WithKey(spans[1].attrs, "http.method") = { AttrString("http.method", "POST") }
  /\ WithKey(spans[1].attrs, "dyn.n") = { AttrInt("dyn.n", 2) }

\* C24: when the inner handler of a traced request panics the interceptor
\* does not recover: the panic leaves it and nothing is returned; the span is
\* ended, once, by the deferred End, and no finalizing step runs: no
\* attribute list, no status and no exception event are set by the
\* interceptor, so the ended span carries what the handler added before it
\* panicked and nothing else.
C24_HandlerPanicSkipsFinalization ==
  \A r \in Reqs :
    (WasTraced(r) /\ Has(log[r], "next.panic")) =>
      /\ pc[r] = "panicked" /\ ret[r] = "none"
      /\ ~Has(log[r], "return") /\ ~Has(log[r], "next.return")
      /\ spans[r].endCalls = 1 /\ Count(log[r], "End") = 1
      /\ log[r][Len(log[r])] = "End"
      /\ \A op \in {"AttributesFunc", "SetAttributes", "StatusFunc", "SetStatus", "RecordError"} :
            ~Has(log[r], op)
      /\ spans[r].status = <<>>
      /\ Exceptions(spans[r]) = {}
      /\ spans[r].events = HelperEvents(helperLog[r])
      /\ Len(spans[r].setAttributesCalls) =
           Count([i \in 1..Len(helperLog[r]) |-> helperLog[r][i].op], "AddAttributes")
      /\ \A i \in 1..Len(spans[r].attrs) : spans[r].attrs[i].key \in HelperKeys(helperLog[r])
      /\ \A k \in {"http.target", "net.peer.addr", "http.route", "http.status_code",
                   "http.server.duration_ms", "service.name"} :
            WithKey(spans[r].attrs, k) = {}

C24_Witness ==
  /\ WasTraced(1) /\ pc[1] = "panicked" /\ Has(log[1], "next.panic")
  /\ spans[1].endCalls = 1 /\ spans[1].status = <<>>
  /\ Len(helperLog[1]) = 2
  /\ helperLog[1][1].op = "AddAttributes" /\ helperLog[1][2].op = "AddEvent"
  /\ WithKey(spans[1].attrs, "dyn.n") = { AttrInt("dyn.n", 1) }
  /\ Len(spans[1].events) = 1

\* C25: the interceptor does not put the original context back when it
\* returns: after a traced request has ended the request still carries the
\* derived context, so Span(c) called then, by a middleware around this one,
\* is the span of the request, already ended, not the no-op span and not
\* what the context held before; AddAttributes / AddEvent calls made then
\* go to that ended span.
C25_DerivedContextStays ==
  \A r \in Reqs :
    TracedDone(r) =>
      /\ Span(req[r]) = r
      /\ Span(req[r]) # Span(inbound[r])
      /\ req[r].ctx = handlerCtx[r]
      /\ req[r].ctx # inbound[r].ctx
      /\ spans[Span(req[r])].started = 1 /\ spans[Span(req[r])].endCalls = 1
      /\ \A i \in 1..Len(outerCalls[r]) :
            /\ outerCalls[r][i].target = r
            /\ spans[outerCalls[r][i].target].endCalls = 1

C25_Witness ==
  /\ TracedDone(1) /\ Len(outerCalls[1]) = 2
  /\ outerCalls[1][1] = [op |-> "AddAttributes", target |-> 1]
  /\ outerCalls[1][2] = [op |-> "AddEvent", target |-> 1]
  /\ spans[1].endCalls = 1 /\ req[1].ctx.span = 1
  /\ inbound[1].header = "traceparent-A"

====
